---- MODULE Spec2Model ----
(***************************************************************************)
(* A model of bind/gen.go of gopy: the pybindgen generator pyGen.  The     *)
(* state is the pyGen struct (its four printers, the current package, the  *)
(* error list, the package map), the two globals it reads (Packages and    *)
(* the symbol table `current`), the output directory, and the position of  *)
(* gen() in its sequence of steps.  Text is a sequence of tokens, one per   *)
(* Printf or per-declaration emission; `trace` is the order in which the   *)
(* pass wrote to its printers and touched the file system.                  *)
(***************************************************************************)
EXTENDS Integers, Sequences, FiniteSets, TLC

VARIABLES Packages, symtab, cmdstr,
          pc, pidx, pkg, pkgmap,
          gofile, pybuild, makefile, pywrap,
          err, ret, files, trace, nfail, run, first

vars == <<Packages, symtab, cmdstr, pc, pidx, pkg, pkgmap,
          gofile, pybuild, makefile, pywrap,
          err, ret, files, trace, nfail, run, first>>

(* ---------------------------------------------------------------- bounds *)

MaxPkgs == 2

MaxFailures == 1

MaxSegs == 4

(* ----------------------------------------------------- generic operators *)

RECURSIVE Concat(_)
Concat(ss) ==
    IF ss = <<>> THEN <<>> ELSE Head(ss) \o Concat(Tail(ss))

Drop(s, n) ==
    IF n >= Len(s) THEN <<>> ELSE SubSeq(s, n + 1, Len(s))

Take(s, n) ==
    IF n <= 0 THEN <<>> ELSE SubSeq(s, 1, IF n > Len(s) THEN Len(s) ELSE n)

HasPrefix(s, p) ==
    Len(s) >= Len(p) /\ SubSeq(s, 1, Len(p)) = p

Min(S) ==
    CHOOSE x \in S : \A y \in S : x <= y

\* strings.Index: the 0-based offset of the first occurrence of pat, or -1
Index(s, pat) ==
    LET hits == {i \in 0..(Len(s) - Len(pat)) : HasPrefix(Drop(s, i), pat)}
    IN  IF hits = {} THEN -1 ELSE Min(hits)

\* strings.Replace(s, old, new, 1)
ReplaceFirst(s, old, new) ==
    LET i == Index(s, old)
    IN  IF i < 0 THEN s ELSE Take(s, i) \o new \o Drop(s, i + Len(old))

Put(f, k, v) ==
    [x \in (DOMAIN f) \cup {k} |-> IF x = k THEN v ELSE f[x]]

Perms(S) ==
    {p \in [1..Cardinality(S) -> S] : \A i, j \in 1..Cardinality(S) : p[i] = p[j] => i = j}

InjSeqs(S, n) ==
    UNION {{p \in [1..k -> S] : \A i, j \in 1..k : p[i] = p[j] => i = j} : k \in 0..n}

(* ------------------------------------------------------ the symbol table *)

\* *types.Package objects.  p1c is a second object for the path of p1 (the
\* importer's copy of a package that is also a target); px is never a target.
TargetObjs == {"p1", "p2", "pb"}

Path(o) ==
    CASE o = "p1" -> "a" [] o = "p1c" -> "a" [] o = "p2" -> "b/a"
      [] o = "pb" -> "build" [] OTHER -> "x"

Name(o) ==
    CASE o = "p1" -> "a" [] o = "p1c" -> "a" [] o = "p2" -> "a"
      [] o = "pb" -> "build" [] OTHER -> "x"

Doc(o) ==
    IF o = "p1" THEN "doc of a" ELSE ""

PkgImports(o) ==
    CASE o = "p1" -> <<"p2", "px">> [] o = "pb" -> <<"p1c">> [] OTHER -> <<>>

Consts(o) ==
    IF o = "p1" THEN <<"C1">> ELSE <<>>

Vars(o) ==
    CASE o = "p1" -> <<"V1">> [] o = "p2" -> <<"V2">> [] OTHER -> <<>>

Ifaces(o) ==
    IF o = "p1" THEN <<"I1">> ELSE <<>>

Structs(o) ==
    CASE o = "p1" -> << [name |-> "S1", ctors |-> <<"NewS1">>],
                        [name |-> "S2", ctors |-> <<"NewS2">>] >>
      [] o = "p2" -> << [name |-> "S3", ctors |-> <<"NewS3", "MakeS3">>] >>
      [] OTHER -> <<>>

Funcs(o) ==
    CASE o = "p1" -> <<"F1">> [] o = "p2" -> <<"F2">> [] OTHER -> <<>>

\* current.names(): the symbol names in their stable (sorted) order
SymOrder == <<"Ta", "Tac", "Tx", "Vx">>

SymNames == {SymOrder[i] : i \in 1..Len(SymOrder)}

isType(n) ==
    n # "Vx"

gopkg(n) ==
    CASE n = "Ta" -> "p1" [] n = "Tac" -> "p1c" [] OTHER -> "px"

names(tab) ==
    SelectSeq(SymOrder, LAMBDA n : n \in tab)

\* current.imports: the import paths the table refers to (a Go map)
imports(tab) ==
    {Path(gopkg(n)) : n \in tab}

(* -------------------------------------------------------- configuration *)

outname == "out"

vm == <<"usr", "bin", "python3">>

libext == ".so"

GoHandle == "int64"

CGoHandle == "C.longlong"

DefaultCmd == <<"g","o","p","y"," ","b","u","i","l","d"," ",
                "-","o","u","t","p","u","t","=","o"," ","a">>

(* ---------------------------------------------------------------- text *)

Tok(k, a) == [k |-> k, a |-> a]

S(x) == <<x>>

W(buf, p, tok) ==
    [op |-> "write", buf |-> buf, pk |-> p, tok |-> tok, ok |-> TRUE]

Toks(evs, buf) ==
    LET sel == SelectSeq(evs, LAMBDA e : e.op = "write" /\ e.buf = buf)
    IN  [i \in 1..Len(sel) |-> sel[i].tok]

(* ----------------------------------------------- per-declaration emitters *)

\* genType(sym, extTypes, pyWrapOnly): the Go construct unless pyWrapOnly, the
\* Python wrapper unless it is an external type of the Go pass
genType(n, extTypes, pyWrapOnly, p) ==
    (IF pyWrapOnly THEN <<>>
     ELSE <<W("gofile", p, Tok("type", <<S(n)>>))>>)
    \o (IF extTypes /\ ~pyWrapOnly THEN <<>>
        ELSE <<W("pywrap", p, Tok("type", <<S(n)>>))>>)

Both(p, tok) ==
    <<W("gofile", p, tok), W("pywrap", p, tok)>>

genConstValue(c, p) == Both(p, Tok("const", <<S(c)>>))

genVarGetter(v, p) == Both(p, Tok("getter", <<S(v)>>))

genVarSetter(v, p) == Both(p, Tok("setter", <<S(v)>>))

genInterface(i, p) == Both(p, Tok("iface", <<S(i)>>))

genStruct(s, p) == Both(p, Tok("struct", <<S(s.name)>>))

genFunc(f, p) == Both(p, Tok("func", <<S(f)>>))

genConst(c, p) == genConstValue(c, p)

genVar(v, p) == genVarGetter(v, p) \o genVarSetter(v, p)

(* ------------------------------------------------------------- preambles *)

\* filepath.Split / Clean / Join on a path held as its segments
libcfg ==
    LET pypath == Take(vm, Len(vm) - 1)
        pyonly == vm[Len(vm)]
        pyroot == Take(pypath, Len(pypath) - 1)
    IN  pyroot \o <<"lib", "pkgconfig", pyonly, ".pc">>

\* order: the sequence in which the range over the map current.imports
\* yields its keys
genGoPreamble(order) ==
    << W("gofile", "nil", Tok("goPreamble",
            <<S(outname), cmdstr, libcfg, S(GoHandle), S(CGoHandle), order>>)),
       W("gofile", "nil", Tok("generated code for package", <<S(outname)>>)) >>

genPyBuildPreamble ==
    << W("pybuild", "nil", Tok("PyBuildPreamble", <<S(outname), cmdstr>>)) >>

OutputFlag == <<"-","o","u","t","p","u","t","=">>

GopyBuild == <<"g","o","p","y"," ","b","u","i","l","d">>

GopyGen == <<"g","o","p","y"," ","g","e","n">>

StripOutputFromCmd(c) ==
    LET oidx == Index(c, OutputFlag)
    IN  IF oidx > 0
        THEN LET spidx == Index(Drop(c, oidx), <<" ">>)
             IN  Take(c, oidx) \o Drop(c, oidx + spidx + 1)
        ELSE c

gencmdOf(c) ==
    StripOutputFromCmd(ReplaceFirst(c, GopyBuild, GopyGen))

genMakefile ==
    << W("makefile", "nil", Tok("MakefileTemplate",
            <<S(outname), cmdstr, gencmdOf(cmdstr), vm, S(libext)>>)) >>

genPyWrapPreamble(p, pm) ==
    LET pkgDoc == IF Doc(p) # "" THEN <<"QQQ", "\n", Doc(p), "\n", "QQQ">> ELSE S("")
        imps   == PkgImports(p)
        impstr == Concat([k \in 1..Len(imps) |->
                            IF Path(imps[k]) \in pm
                            THEN <<"from ", outname, " import ", Name(imps[k]), "\n">>
                            ELSE <<>>])
    IN  << W("pywrap", p, Tok("PyWrapPreamble",
              <<S(outname), cmdstr, S(Name(p)), S(Path(p)), pkgDoc, impstr>>)) >>

(* ------------------------------------------------- external types, genAll *)

\* the isType test left out
genExtTypesGoAnySymbol(tab, pm) ==
    <<W("gofile", "nil", Tok("hdr", <<S("External Types")>>))>>
    \o Concat([k \in 1..Len(names(tab)) |->
                 LET n == names(tab)[k]
                 IN  IF Path(gopkg(n)) \in pm THEN <<>>
                     ELSE genType(n, TRUE, FALSE, "nil")])

genExtTypesGo(tab, pm) ==
    <<W("gofile", "nil", Tok("hdr", <<S("External Types")>>))>>
    \o Concat([k \in 1..Len(names(tab)) |->
                 LET n == names(tab)[k]
                 IN  IF ~isType(n) THEN <<>>
                     ELSE IF Path(gopkg(n)) \in pm THEN <<>>
                     ELSE genType(n, TRUE, FALSE, "nil")])

\* the Go pass's call of genType, pasted into the wrapper pass
genExtTypesPyWrapAsGo(tab, pm, p) ==
    <<W("pywrap", p, Tok("hdr", <<S("External Types")>>))>>
    \o Concat([k \in 1..Len(names(tab)) |->
                 LET n == names(tab)[k]
                 IN  IF ~isType(n) THEN <<>>
                     ELSE IF Path(gopkg(n)) \in pm THEN <<>>
                     ELSE genType(n, TRUE, FALSE, p)])

genExtTypesPyWrap(tab, pm, p) ==
    <<W("pywrap", p, Tok("hdr", <<S("External Types")>>))>>
    \o Concat([k \in 1..Len(names(tab)) |->
                 LET n == names(tab)[k]
                 IN  IF ~isType(n) THEN <<>>
                     ELSE IF Path(gopkg(n)) \in pm THEN <<>>
                     ELSE genType(n, TRUE, TRUE, p)])

Hdr(p, h) ==
    <<W("gofile", p, Tok("hdr", <<S(h)>>)), W("pywrap", p, Tok("hdr", <<S(h)>>))>>

\* the Types loop of genAll
genAllTypes(tab, p) ==
    Concat([k \in 1..Len(names(tab)) |->
              LET n == names(tab)[k]
              IN  IF ~isType(n) \/ gopkg(n) # p THEN <<>>
                  ELSE genType(n, FALSE, FALSE, p)])

\* each struct's constructors emitted right after the struct
genAllCtorsWithStruct(tab, p) ==
    <<W("gofile", p, Tok("hdr", <<S("Package"), S(Name(p))>>))>>
    \o Hdr(p, "Types")
    \o genAllTypes(tab, p)
    \o <<W("pywrap", p, Tok("hdr", <<S("Constants")>>))>>
    \o Concat([k \in 1..Len(Consts(p)) |-> genConst(Consts(p)[k], p)])
    \o Hdr(p, "Global Variables")
    \o Concat([k \in 1..Len(Vars(p)) |-> genVar(Vars(p)[k], p)])
    \o Hdr(p, "Interfaces")
    \o Concat([k \in 1..Len(Ifaces(p)) |-> genInterface(Ifaces(p)[k], p)])
    \o Hdr(p, "Structs")
    \o Concat([k \in 1..Len(Structs(p)) |->
                 LET s == Structs(p)[k]
                 IN  genStruct(s, p)
                     \o Concat([c \in 1..Len(s.ctors) |-> genFunc(s.ctors[c], p)])])
    \o Hdr(p, "Functions")
    \o Concat([k \in 1..Len(Funcs(p)) |-> genFunc(Funcs(p)[k], p)])

genAll(tab, p) ==
    <<W("gofile", p, Tok("hdr", <<S("Package"), S(Name(p))>>))>>
    \o Hdr(p, "Types")
    \o genAllTypes(tab, p)
    \o <<W("pywrap", p, Tok("hdr", <<S("Constants")>>))>>
    \o Concat([k \in 1..Len(Consts(p)) |-> genConst(Consts(p)[k], p)])
    \o Hdr(p, "Global Variables")
    \o Concat([k \in 1..Len(Vars(p)) |-> genVar(Vars(p)[k], p)])
    \o Hdr(p, "Interfaces")
    \o Concat([k \in 1..Len(Ifaces(p)) |-> genInterface(Ifaces(p)[k], p)])
    \o Hdr(p, "Structs")
    \o Concat([k \in 1..Len(Structs(p)) |-> genStruct(Structs(p)[k], p)])
    \o Hdr(p, "Constructors")
    \o Concat([k \in 1..Len(Structs(p)) |->
                 LET s == Structs(p)[k]
                 IN  Concat([c \in 1..Len(s.ctors) |-> genFunc(s.ctors[c], p)])])
    \o Hdr(p, "Functions")
    \o Concat([k \in 1..Len(Funcs(p)) |-> genFunc(Funcs(p)[k], p)])

(* ------------------------------------------------------------ file system *)

FileName(base, ext) == <<base, ext>>

MarkerFile == FileName("__init__", ".py")

GoFile == FileName(outname, ".go")

BuildFile == FileName("build", ".py")

MakeFile == FileName("Makefile", "")

WrapFile(p) == FileName(Name(p), ".py")

\* what a file holds after a write that failed part-way
Partial == <<Tok("partial write", <<>>)>>

NilErr == <<>>

ErrInvalid == <<"invalid argument">>

\* ErrorList.Add: a nil error is not recorded
ErrAdd(list, e) ==
    IF e = NilErr THEN list ELSE Append(list, e)

Outcomes == {"ok", "createfail", "writefail"}

Failed(o) == IF o = "ok" THEN 0 ELSE 1

Ev(op, buf, p, fn, ok) ==
    [op |-> op, buf |-> buf, pk |-> p, tok |-> Tok("file", <<fn>>), ok |-> ok]

\* a return right after a failed os.Create: no copy, no Close
genPrintOutReturnOnError(st, fn, buf, p, content, o) ==
    IF o = "createfail"
    THEN [files |-> st.files,
          err   |-> ErrAdd(st.err, <<"open", fn[1], fn[2]>>),
          trace |-> Append(st.trace, Ev("create", buf, p, fn, FALSE)),
          nfail |-> st.nfail + 1]
    ELSE LET copyErr == IF o = "writefail" THEN <<"write", fn[1], fn[2]>> ELSE NilErr
         IN  [files |-> Put(st.files, fn, IF copyErr = NilErr THEN content ELSE Partial),
              err   |-> ErrAdd(st.err, copyErr),
              trace |-> st.trace \o << Ev("create", buf, p, fn, TRUE),
                                       Ev("copy", buf, p, fn, copyErr = NilErr),
                                       Ev("close", buf, p, fn, TRUE) >>,
              nfail |-> st.nfail + Failed(o)]

\* genPrintOut(outfn, pr) on the part of the state it touches, st = [files, err,
\* trace, nfail]; o is what the file system does to this call
genPrintOut(st, fn, buf, p, content, o) ==
    LET created   == o # "createfail"
        createErr == IF created THEN NilErr ELSE <<"open", fn[1], fn[2]>>
        copyErr   == IF ~created THEN ErrInvalid
                     ELSE IF o = "writefail" THEN <<"write", fn[1], fn[2]>>
                     ELSE NilErr
        f1 == IF created THEN Put(st.files, fn, <<>>) ELSE st.files
        f2 == IF ~created THEN f1
              ELSE IF copyErr = NilErr THEN Put(f1, fn, content)
              ELSE Put(f1, fn, Partial)
    IN  [files |-> f2,
         err   |-> ErrAdd(ErrAdd(st.err, createErr), copyErr),
         trace |-> st.trace \o << Ev("create", buf, p, fn, created),
                                  Ev("copy", buf, p, fn, copyErr = NilErr),
                                  Ev("close", buf, p, fn, created) >>,
         nfail |-> st.nfail + Failed(o)]

Allowed(n) ==
    IF n < MaxFailures THEN Outcomes ELSE {"ok"}

St == [files |-> files, err |-> err, trace |-> trace, nfail |-> nfail]

NoRet == [st |-> "pending", msgs |-> <<>>]

NilRet == [st |-> "nil", msgs |-> <<>>]

ErrRet(msgs) == [st |-> "error", msgs |-> msgs]

MkdirMsg == <<"gopy: could not create output directory: ", "mkdir">>

(* ---------------------------------------------------------------- actions *)

Tables == SUBSET SymNames

\* GenPyBind: a fresh pyGen, nothing generated yet
Fresh ==
    /\ pc = "gen"
    /\ pidx = 1
    /\ pkg = "nil"
    /\ pkgmap = {}
    /\ gofile = <<>>
    /\ pybuild = <<>>
    /\ makefile = <<>>
    /\ pywrap = <<>>
    /\ err = <<>>
    /\ ret = NoRet
    /\ trace = <<>>
    /\ nfail = 0

Init ==
    /\ Packages \in InjSeqs(TargetObjs, MaxPkgs)
    /\ symtab \in Tables
    /\ cmdstr = DefaultCmd
    /\ Fresh
    /\ files = <<>>
    /\ run = 1
    /\ first = [files |-> <<>>, ret |-> NoRet]

\* the directory error recorded in g.err and the pass carried on
MkdirAllRecorded ==
    /\ pc = "gen"
    /\ \E ok \in BOOLEAN :
          /\ trace' = Append(trace, Ev("mkdir", "odir", "nil", <<"odir", "">>, ok))
          /\ err' = ErrAdd(err, IF ok THEN NilErr ELSE MkdirMsg)
    /\ pc' = "genPackageMap"
    /\ pkg' = "nil"
    /\ UNCHANGED <<Packages, symtab, cmdstr, pidx, pkgmap, gofile, pybuild,
                   makefile, pywrap, ret, files, nfail, run, first>>

\* gen(), lines 196-200: os.MkdirAll, and the return when it fails
MkdirAll ==
    /\ pc = "gen"
    /\ \E ok \in BOOLEAN :
          /\ trace' = Append(trace, Ev("mkdir", "odir", "nil", <<"odir", "">>, ok))
          /\ IF ok
             THEN /\ pc' = "genPackageMap"
                  /\ ret' = ret
             ELSE /\ pc' = "done"
                  /\ ret' = ErrRet(<<MkdirMsg>>)
    /\ pkg' = "nil"
    /\ UNCHANGED <<Packages, symtab, cmdstr, pidx, pkgmap, gofile, pybuild,
                   makefile, pywrap, err, files, nfail, run, first>>

GenPackageMap ==
    /\ pc = "genPackageMap"
    /\ pkgmap' = {Path(Packages[i]) : i \in 1..Len(Packages)}
    /\ pc' = "genPre"
    /\ UNCHANGED <<Packages, symtab, cmdstr, pidx, pkg, gofile, pybuild,
                   makefile, pywrap, err, ret, files, trace, nfail, run, first>>

GenPre ==
    /\ pc = "genPre"
    /\ \E order \in Perms(imports(symtab)), o \in Allowed(nfail) \ {"writefail"} :
          LET evs == genGoPreamble(order) \o genPyBuildPreamble \o genMakefile
              created == o = "ok"
          IN  /\ gofile' = Toks(evs, "gofile")
              /\ pybuild' = Toks(evs, "pybuild")
              /\ makefile' = Toks(evs, "makefile")
              /\ files' = IF created THEN Put(files, MarkerFile, <<>>) ELSE files
              /\ err' = ErrAdd(err, IF created THEN NilErr
                                    ELSE <<"open", MarkerFile[1], MarkerFile[2]>>)
              /\ trace' = trace \o evs
                             \o << Ev("create", "init", "nil", MarkerFile, created),
                                   Ev("close", "init", "nil", MarkerFile, created) >>
              /\ nfail' = nfail + Failed(o)
    /\ pc' = "genExtTypesGo"
    /\ UNCHANGED <<Packages, symtab, cmdstr, pidx, pkg, pkgmap, pywrap, ret,
                   run, first>>

GenExtTypesGo ==
    /\ pc = "genExtTypesGo"
    /\ LET evs == genExtTypesGo(symtab, pkgmap)
       IN  /\ gofile' = gofile \o Toks(evs, "gofile")
           /\ trace' = trace \o evs
    /\ pc' = IF pidx <= Len(Packages) THEN "genPkg" ELSE "genOut"
    /\ UNCHANGED <<Packages, symtab, cmdstr, pidx, pkg, pkgmap, pybuild,
                   makefile, pywrap, err, ret, files, nfail, run, first>>

\* the printer writes of genPkg(p), up to the Printf of genPkgWrapOut
genPkgEvents(p) ==
    genPyWrapPreamble(p, pkgmap)
    \o genExtTypesPyWrap(symtab, pkgmap, p)
    \o genAll(symtab, p)
    \o <<W("pywrap", p, Tok("tail", <<>>))>>

\* genPkg(p) with genPkgWrapOut, for the next package of the loop in gen()
GenPkg ==
    /\ pc = "genPkg"
    /\ pidx <= Len(Packages)
    /\ \E o \in Allowed(nfail) :
          LET p    == Packages[pidx]
              evs  == genPkgEvents(p)
              wrap == Toks(evs, "pywrap")
              st   == genPrintOut([St EXCEPT !.trace = trace \o evs],
                                  WrapFile(p), "pywrap", p, wrap, o)
          IN  /\ pywrap' = wrap
              /\ gofile' = gofile \o Toks(evs, "gofile")
              /\ files' = st.files
              /\ err' = st.err
              /\ trace' = st.trace
              /\ nfail' = st.nfail
    /\ pkg' = "nil"
    /\ pidx' = pidx + 1
    /\ pc' = IF pidx + 1 <= Len(Packages) THEN "genPkg" ELSE "genOut"
    /\ UNCHANGED <<Packages, symtab, cmdstr, pkgmap, pybuild, makefile, ret,
                   run, first>>

genOutEvents ==
    << W("pybuild", "nil", Tok("mod.generate", <<S(outname)>>)),
       W("gofile", "nil", Tok("tail", <<>>)),
       W("makefile", "nil", Tok("tail", <<>>)) >>

\* the three files written before the closing Printfs
GenOutFlushFirst ==
    /\ pc = "genOut"
    /\ \E o1, o2, o3 \in Outcomes :
          /\ nfail + Failed(o1) + Failed(o2) + Failed(o3) <= MaxFailures
          /\ LET evs == genOutEvents
                 s1  == genPrintOut(St, GoFile, "gofile", "nil", gofile, o1)
                 s2  == genPrintOut(s1, BuildFile, "pybuild", "nil", pybuild, o2)
                 s3  == genPrintOut(s2, MakeFile, "makefile", "nil", makefile, o3)
             IN  /\ gofile' = gofile \o Toks(evs, "gofile")
                 /\ pybuild' = pybuild \o Toks(evs, "pybuild")
                 /\ makefile' = makefile \o Toks(evs, "makefile")
                 /\ files' = s3.files
                 /\ err' = s3.err
                 /\ trace' = s3.trace \o evs
                 /\ nfail' = s3.nfail
    /\ pc' = "return"
    /\ UNCHANGED <<Packages, symtab, cmdstr, pidx, pkg, pkgmap, pywrap, ret,
                   run, first>>

GenOut ==
    /\ pc = "genOut"
    /\ \E o1, o2, o3 \in Outcomes :
          /\ nfail + Failed(o1) + Failed(o2) + Failed(o3) <= MaxFailures
          /\ LET evs == genOutEvents
                 g   == gofile \o Toks(evs, "gofile")
                 b   == pybuild \o Toks(evs, "pybuild")
                 m   == makefile \o Toks(evs, "makefile")
                 s1  == genPrintOut([St EXCEPT !.trace = trace \o evs],
                                    GoFile, "gofile", "nil", g, o1)
                 s2  == genPrintOut(s1, BuildFile, "pybuild", "nil", b, o2)
                 s3  == genPrintOut(s2, MakeFile, "makefile", "nil", m, o3)
             IN  /\ gofile' = g
                 /\ pybuild' = b
                 /\ makefile' = m
                 /\ files' = s3.files
                 /\ err' = s3.err
                 /\ trace' = s3.trace
                 /\ nfail' = s3.nfail
    /\ pc' = "return"
    /\ UNCHANGED <<Packages, symtab, cmdstr, pidx, pkg, pkgmap, pywrap, ret,
                   run, first>>

\* gen(), lines 209-212
Return ==
    /\ pc = "return"
    /\ ret' = IF Len(err) = 0 THEN NilRet ELSE ErrRet(err)
    /\ pc' = "done"
    /\ UNCHANGED <<Packages, symtab, cmdstr, pidx, pkg, pkgmap, gofile, pybuild,
                   makefile, pywrap, err, files, trace, nfail, run, first>>

Next ==
    \/ MkdirAll
    \/ GenPackageMap
    \/ GenPre
    \/ GenExtTypesGo
    \/ GenPkg
    \/ GenOut
    \/ Return

Spec == Init /\ [][Next]_vars

(* ------------------------------------------- a second call of GenPyBind *)

\* after a pass that returned nil, the caller runs GenPyBind again on the same
\* tables and the same directory
SecondRun ==
    /\ pc = "done"
    /\ ret = NilRet
    /\ run = 1
    /\ run' = 2
    /\ first' = [files |-> files, ret |-> ret]
    /\ pc' = "gen"
    /\ pidx' = 1
    /\ pkg' = "nil"
    /\ pkgmap' = {}
    /\ gofile' = <<>>
    /\ pybuild' = <<>>
    /\ makefile' = <<>>
    /\ pywrap' = <<>>
    /\ err' = <<>>
    /\ ret' = NoRet
    /\ trace' = <<>>
    /\ nfail' = 0
    /\ UNCHANGED <<Packages, symtab, cmdstr, files>>

NextTwoRuns ==
    \/ Next
    \/ SecondRun

SpecTwoRuns == Init /\ [][NextTwoRuns]_vars

(* --------------------------------------- genMakefile on any command line *)

Gopy == <<"g","o","p","y">>

Args == {<<"b","u","i","l","d">>, <<"a">>, OutputFlag, OutputFlag \o <<"o">>}

\* the command lines: the program's name, then up to MaxSegs arguments, each
\* after a space
CmdStrs ==
    {Gopy \o Concat([k \in 1..Len(args) |-> <<" ">> \o args[k]])
        : args \in UNION {[1..n -> Args] : n \in 0..MaxSegs}}

InitStrip ==
    /\ Packages = <<>>
    /\ symtab = {}
    /\ cmdstr \in CmdStrs
    /\ Fresh
    /\ files = <<>>
    /\ run = 1
    /\ first = [files |-> <<>>, ret |-> NoRet]

GenMakefile ==
    /\ pc = "gen"
    /\ makefile' = Toks(genMakefile, "makefile")
    /\ trace' = trace \o genMakefile
    /\ pc' = "genMakefile done"
    /\ UNCHANGED <<Packages, symtab, cmdstr, pidx, pkg, pkgmap, gofile, pybuild,
                   pywrap, err, ret, files, nfail, run, first>>

NextStrip == GenMakefile

SpecStrip == InitStrip /\ [][NextStrip]_vars

(* ------------------------------------------------- vocabulary of the claims *)

Done == pc = "done"

Pos == 1..Len(trace)

MkdirFailed == \E i \in Pos : trace[i].op = "mkdir" /\ ~trace[i].ok

PassDone == Done /\ ~MkdirFailed

Targets == {Packages[i] : i \in 1..Len(Packages)}

TargetSet == {Path(p) : p \in Targets}

IsExternal(n) == isType(n) /\ Path(gopkg(n)) \notin TargetSet

IsTypeTok(t, n) == t.k = "type" /\ t.a = <<S(n)>>

TypeCount(text, n) == Len(SelectSeq(text, LAMBDA t : IsTypeTok(t, n)))

\* the text written to the wrapper printer while g.pkg was p
WrapTextOf(p) == Toks(SelectSeq(trace, LAMBDA e : e.pk = p), "pywrap")

IsWrite(e, buf, p) == e.op = "write" /\ e.buf = buf /\ e.pk = p

IsFlush(e, buf, p) == e.op = "create" /\ e.buf = buf /\ e.pk = p

Shared == {"gofile", "pybuild", "makefile"}

CtorsOf(p) ==
    UNION { {Structs(p)[i].ctors[j] : j \in 1..Len(Structs(p)[i].ctors)}
            : i \in 1..Len(Structs(p)) }

\* the place of a declaration emission in the order types, constants,
\* variables, interfaces, structs, constructors, functions (0: not one)
KindRank(t, p) ==
    CASE t.k = "type"   -> 1
      [] t.k = "const"  -> 2
      [] t.k \in {"getter", "setter"} -> 3
      [] t.k = "iface"  -> 4
      [] t.k = "struct" -> 5
      [] t.k = "func"   -> IF t.a[1][1] \in CtorsOf(p) THEN 6 ELSE 7
      [] OTHER -> 0

\* the declaration emissions of text, by their ranks, never step down
InOrder(text, p) ==
    LET ranks == SelectSeq([i \in 1..Len(text) |-> KindRank(text[i], p)],
                           LAMBDA r : r > 0)
    IN  \A i \in 1..(Len(ranks) - 1) : ranks[i] <= ranks[i + 1]

HasKind(text, p, r) == \E i \in 1..Len(text) : KindRank(text[i], p) = r

(* ------------------------------------------------------------------ C1 *)

C3_ExternalExactlyOnce ==
    PassDone =>
        \A n \in symtab : IsExternal(n) =>
            /\ TypeCount(gofile, n) = 1
            /\ \A p \in Targets : TypeCount(WrapTextOf(p), n) = 1
            /\ \A fn \in DOMAIN files :
                  (fn[2] \in {".go", ".py"} /\ fn \notin {BuildFile, MarkerFile}
                     /\ files[fn] # Partial /\ files[fn] # <<>>)
                  => TypeCount(files[fn], n) = 1

C3_Witness ==
    /\ PassDone
    /\ Len(Packages) = 2
    /\ "Tx" \in symtab
    /\ \E n \in symtab : ~IsExternal(n)
    /\ GoFile \in DOMAIN files /\ TypeCount(files[GoFile], "Tx") = 1

(* ------------------------------------------------------------------ C4 *)

\* C4: at the end of the pass, in the glue text and in the wrapper text of every target package the
\* declaration emissions of that package come in the order types, constants,
\* variables, interfaces, structs, constructors, functions.
C4_FixedSectionOrder ==
    Done =>
        \A p \in Targets :
            /\ InOrder(Toks(SelectSeq(trace, LAMBDA e : e.pk = p), "gofile"), p)
            /\ InOrder(WrapTextOf(p), p)

C4_Witness ==
    /\ PassDone
    /\ "p1" \in Targets
    /\ "Ta" \in symtab
    /\ \A r \in 1..7 : HasKind(WrapTextOf("p1"), "p1", r)
    /\ \A r \in 1..7 :
          HasKind(Toks(SelectSeq(trace, LAMBDA e : e.pk = "p1"), "gofile"), "p1", r)

(* ------------------------------------------------------------------ C5 *)

FlushPos == {i \in Pos : trace[i].op = "create"}

PkgPos(p) == CHOOSE i \in 1..Len(Packages) : Packages[i] = p

\* C5: in the trace of a finished pass, nothing is written to a printer once
\* its flush has begun; a package's wrapper is flushed after its whole section (down to its functions) and
\* before anything is emitted for a later package; each shared printer is
\* flushed at most once, only after every package's wrapper flush and every
\* write of the pass, and exactly once by the end of the pass.
C5_FlushOrdering ==
    Done =>
        /\ \A i \in FlushPos : \A j \in (i + 1)..Len(trace) :
              trace[j].op = "write"
                  => ~(trace[j].buf = trace[i].buf /\ trace[j].pk = trace[i].pk)
        /\ \A j \in FlushPos : trace[j].buf = "pywrap" =>
              LET p == trace[j].pk
              IN  /\ \E i \in 1..j : IsWrite(trace[i], "pywrap", p)
                                       /\ trace[i].tok = Tok("hdr", <<S("Functions")>>)
                  /\ \A f \in {Funcs(p)[k] : k \in 1..Len(Funcs(p))} :
                        \E i \in 1..j : IsWrite(trace[i], "pywrap", p)
                                          /\ trace[i].tok = Tok("func", <<S(f)>>)
                  /\ \A i \in 1..j :
                        (trace[i].op = "write" /\ trace[i].pk \in Targets)
                            => PkgPos(trace[i].pk) <= PkgPos(p)
        /\ \A b \in Shared :
              /\ Cardinality({j \in FlushPos : IsFlush(trace[j], b, "nil")}) <= 1
              /\ ~MkdirFailed
                    => Cardinality({j \in FlushPos : IsFlush(trace[j], b, "nil")}) = 1
              /\ \A j \in FlushPos : IsFlush(trace[j], b, "nil") =>
                    /\ \A p \in Targets : \E i \in 1..j : IsFlush(trace[i], "pywrap", p)
                    /\ \A i \in (j + 1)..Len(trace) : trace[i].op # "write"

C5_Witness ==
    /\ PassDone
    /\ Len(Packages) = 2
    /\ \A b \in Shared : \E j \in Pos : IsFlush(trace[j], b, "nil")
    /\ \A p \in Targets : \E j \in Pos : IsFlush(trace[j], "pywrap", p)

(* ------------------------------------------------------------------ C6 *)

FailureAt(i) ==
    \/ trace[i].op = "create" /\ ~trace[i].ok
    \/ trace[i].op = "copy" /\ ~trace[i].ok /\ trace[i - 1].ok

ErrHas(m) == \E k \in 1..Len(err) : err[k] = m

\* C6: in a finished pass, a file that cannot be created or written has put
\* its error in g.err and the pass has gone on: every create is followed by the close of that file before
\* anything else is opened, every target package is emitted and its wrapper
\* flush attempted, the three shared flushes and the marker are attempted, and
\* gen returns an error holding every recorded message; it returns nil only
\* when nothing failed.
C6_FileFailureRecorded ==
    Done =>
        /\ \A i \in Pos :
              /\ (trace[i].op = "create" /\ ~trace[i].ok)
                    => ErrHas(<<"open", trace[i].tok.a[1][1], trace[i].tok.a[1][2]>>)
              /\ (trace[i].op = "copy" /\ ~trace[i].ok /\ trace[i - 1].ok)
                    => ErrHas(<<"write", trace[i].tok.a[1][1], trace[i].tok.a[1][2]>>)
              /\ trace[i].op = "create" =>
                    \E j \in (i + 1)..Len(trace) :
                        /\ trace[j].op = "close" /\ trace[j].tok = trace[i].tok
                        /\ \A k \in (i + 1)..j : trace[k].op # "create"
        /\ PassDone =>
              /\ \A p \in Targets :
                    /\ \E i \in Pos : IsFlush(trace[i], "pywrap", p)
                    /\ \E i \in Pos : IsWrite(trace[i], "gofile", p)
                                        /\ trace[i].tok = Tok("hdr", <<S("Functions")>>)
              /\ \A b \in Shared : \E i \in Pos : IsFlush(trace[i], b, "nil")
              /\ \E i \in Pos : IsFlush(trace[i], "init", "nil")
              /\ (\E i \in Pos : FailureAt(i)) => (ret.st = "error" /\ ret.msgs = err)
              /\ ret.st = "nil" => ~(\E i \in Pos : FailureAt(i))

C6_Witness ==
    /\ PassDone
    /\ Len(Packages) = 2
    /\ \E i \in Pos : IsFlush(trace[i], "pywrap", Packages[1]) /\ FailureAt(i)
    /\ ret.st = "error"

(* ------------------------------------------------------------------ C7 *)

ZeroPkgPass == PassDone /\ Packages = <<>> /\ nfail = 0

DeclKinds == {"type", "const", "getter", "setter", "iface", "struct", "func"}

\* C7 as stated: with no target package, all four kinds of artifact (glue
\* file, build script, build recipe, wrapper file) are produced and hold only
\* their preambles, with no external-type emission.
C7_ZeroPkgsFourArtifacts ==
    ZeroPkgPass =>
        /\ {GoFile, BuildFile, MakeFile} \subseteq DOMAIN files
        /\ \E fn \in DOMAIN files : fn[2] = ".py" /\ fn \notin {BuildFile, MarkerFile}
        /\ \A i \in 1..Len(files[GoFile]) : files[GoFile][i].k \notin DeclKinds

TypeNames == SelectSeq(names(symtab), isType)

\* C7 amended: with no target package, the pass writes the glue file, the
\* build script, the build recipe and the empty marker and no wrapper file;
\* build script and recipe hold their preamble and their closing text, the
\* glue file holds its preamble, the external-types header, one emission for
\* every type symbol of the table in the table's order, and its closing text;
\* every preamble carries the one output name.
C7_ZeroPkgsSharedOnly ==
    ZeroPkgPass =>
        /\ DOMAIN files = {GoFile, BuildFile, MakeFile, MarkerFile}
        /\ files[MarkerFile] = <<>>
        /\ pywrap = <<>>
        /\ Len(files[BuildFile]) = 2
        /\ files[BuildFile][1].k = "PyBuildPreamble"
        /\ files[BuildFile][1].a[1] = S(outname)
        /\ files[BuildFile][2] = Tok("mod.generate", <<S(outname)>>)
        /\ Len(files[MakeFile]) = 2
        /\ files[MakeFile][1].k = "MakefileTemplate"
        /\ files[MakeFile][1].a[1] = S(outname)
        /\ files[MakeFile][2] = Tok("tail", <<>>)
        /\ Len(files[GoFile]) = 4 + Len(TypeNames)
        /\ files[GoFile][1].k = "goPreamble"
        /\ files[GoFile][1].a[1] = S(outname)
        /\ files[GoFile][2] = Tok("generated code for package", <<S(outname)>>)
        /\ files[GoFile][3] = Tok("hdr", <<S("External Types")>>)
        /\ \A i \in 1..Len(TypeNames) :
              files[GoFile][3 + i] = Tok("type", <<S(TypeNames[i])>>)
        /\ files[GoFile][4 + Len(TypeNames)] = Tok("tail", <<>>)

C7_Witness == ZeroPkgPass /\ Cardinality(symtab) = 2 /\ "Vx" \in symtab

(* ------------------------------------------------------------------ C9 *)

\* C9: after a pass in which nothing failed, every target package's wrapper
\* file holds that package's own wrapper text.
C9_OneWrapperFilePerPackage ==
    (PassDone /\ nfail = 0) =>
        \A p \in Targets :
            /\ WrapFile(p) \in DOMAIN files
            /\ files[WrapFile(p)] = WrapTextOf(p)

(* ----------------------------------------------------------------- C10 *)

\* C10: once the pass is over, every type symbol of the table is in the glue
\* text exactly once.
C10_TypeSymbolsPartitioned ==
    PassDone => \A n \in symtab : isType(n) => TypeCount(gofile, n) = 1

(* ------------------------------------------------------------------ C2 *)

\* C2: a second pass over the same tables, after a first one that returned
\* nil, leaves every file with the content the first pass gave it.
C2_TwoRunsIdentical ==
    (run = 2 /\ Done /\ ret = NilRet) => files = first.files

(* ------------------------------------------------------------------ C8 *)

RECURSIVE Fields(_)
\* strings.Fields on the single space
Fields(s) ==
    IF s = <<>> THEN <<>>
    ELSE LET sp == Index(s, <<" ">>)
         IN  IF sp < 0 THEN <<s>>
             ELSE IF sp = 0 THEN Fields(Tail(s))
             ELSE <<Take(s, sp)>> \o Fields(Drop(s, sp + 1))

IsOutputArg(a) == HasPrefix(a, OutputFlag)

\* C8: the generate command of the build recipe has no -output= argument, and
\* its other arguments are those of the command line, build replaced by gen.
C8_OutputStripped ==
    pc = "genMakefile done" =>
        LET gencmd == makefile[1].a[3]
        IN  /\ Index(gencmd, OutputFlag) = -1
            /\ Fields(gencmd)
                 = SelectSeq(Fields(ReplaceFirst(cmdstr, GopyBuild, GopyGen)),
                             LAMBDA a : ~IsOutputArg(a))

====
